---- MODULE Spec2Model ----
(***************************************************************************)
(* Document chatbot (Streamlit + LangChain + Claude).                      *)
(*                                                                         *)
(* The state is the Streamlit session state (messages, chat_engine,        *)
(* documents_loaded), the sidebar widget values and the credential of the  *)
(* process environment.  Every action is one run of the script app.py, top   *)
(* to bottom, triggered by one user interaction.  Text is modelled by      *)
(* TLA+ strings, temperatures in tenths.                                   *)
(***************************************************************************)
EXTENDS Integers, Sequences, FiniteSets, TLC

VARIABLES
    environ,            \* os.environ["ANTHROPIC_API_KEY"] ("" = not set)
    messages,           \* st.session_state.messages
    chat_engine,        \* st.session_state.chat_engine
    documents_loaded,   \* st.session_state.documents_loaded
    widgets,            \* values of the three settings widgets of the sidebar
    run                 \* what the last script run did and showed

vars == <<environ, messages, chat_engine, documents_loaded, widgets, run>>

(***************************************************************************)
(* Bounds of the model.                                                    *)
(***************************************************************************)
MaxQueries == 2         \* chat inputs in one session

(***************************************************************************)
(* Program constants.                                                      *)
(***************************************************************************)
TopK == 4               \* search_kwargs={"k": 4}
PreviewLen == 200       \* doc.page_content[:200]
DefaultTemperature == 0
DefaultMaxTokens == 1024
DefaultModel == "claude-3-5-sonnet-20241022"

None == [none |-> TRUE]

(***************************************************************************)
(* Strings.                                                                *)
(***************************************************************************)
RECURSIVE Rep(_, _)
Rep(s, n) == IF n = 0 THEN "" ELSE s \o Rep(s, n - 1)

Digits == <<"0", "1", "2", "3", "4", "5", "6", "7", "8", "9">>

\* str(n) of a non-negative integer, as an f-string formats it
RECURSIVE IntStr(_)
IntStr(n) == IF n < 10 THEN Digits[n + 1]
             ELSE IntStr(n \div 10) \o Digits[(n % 10) + 1]

Upper == "ABCDEFGHIJKLMNOPQRSTUVWXYZ"
Lower == "abcdefghijklmnopqrstuvwxyz"

LowerChar(c) ==
    IF \E i \in 1..Len(Upper) : SubSeq(Upper, i, i) = c
    THEN LET i == CHOOSE j \in 1..Len(Upper) : SubSeq(Upper, j, j) = c
         IN  SubSeq(Lower, i, i)
    ELSE c

\* str.lower()
RECURSIVE StrLower(_)
StrLower(s) == IF Len(s) = 0 THEN ""
               ELSE LowerChar(SubSeq(s, 1, 1)) \o StrLower(SubSeq(s, 2, Len(s)))

\* os.path.splitext(path)[1]: from the last dot of the last path component
\* (a leading dot of the component does not start an extension)
Splitext(path) ==
    LET slashes == {i \in 1..Len(path) : SubSeq(path, i, i) = "/"}
        base == IF slashes = {} THEN 1
                ELSE (CHOOSE i \in slashes : \A j \in slashes : j <= i) + 1
        dots == {i \in (base + 1)..Len(path) :
                    /\ SubSeq(path, i, i) = "."
                    /\ \E j \in base..(i - 1) : SubSeq(path, j, j) # "."}
    IN  IF dots = {} THEN ""
        ELSE SubSeq(path, CHOOSE i \in dots : \A j \in dots : j <= i, Len(path))

(***************************************************************************)
(* The uploaded files.  A file is its name and what its loader finds in    *)
(* it: an error, or the texts of its pages (PDF) or elements (Excel).      *)
(* Every text is shorter than chunk_size, where the splitter keeps a       *)
(* non-empty text as one chunk and drops an empty one.                     *)
(***************************************************************************)
Text200 == Rep("0123456789", 20)
Text201 == Text200 \o "X"
Text250 == Rep("abcdefghij", 25)

\* what the loaders find at a path of temp_uploads
FileContent(file_path) ==
    LET name == SubSeq(file_path, Len("temp_uploads/") + 1, Len(file_path))
    IN
    CASE name = "report.pdf" ->
            [error |-> "",
             texts |-> <<Text200, Text201, "Invoice total: $450", Text250,
                         "Payment terms: net 30">>]
      [] name = "data.xlsx" ->
            [error |-> "", texts |-> <<"Region North 12", "Region South 7">>]
      [] name = "broken.pdf" ->
            [error |-> "EOF marker not found", texts |-> <<>>]
      [] name = "SCAN.PDF" ->
            [error |-> "", texts |-> <<"">>]
      [] OTHER ->
            [error |-> "", texts |-> <<"plain notes">>]

\* the uploads of the model, in the uploader's order: none, one good file,
\* two good files, a broken file between two good ones, and files that
\* yield no chunk (no text layer, unsupported type)
Uploads ==
    {<<>>,
     <<"report.pdf">>,
     <<"data.xlsx", "report.pdf">>,
     <<"report.pdf", "broken.pdf", "data.xlsx">>,
     <<"SCAN.PDF", "notes.txt">>}

(***************************************************************************)
(* utils.py                                                                *)
(***************************************************************************)
\* the path save_uploaded_file returns
save_uploaded_file(name) == "temp_uploads/" \o name

(***************************************************************************)
(* document_processor.py                                                   *)
(***************************************************************************)
\* PyPDFLoader(file_path).load(): one document per page, pages from 0
PyPDFLoad(file_path, texts) ==
    [i \in 1..Len(texts) |->
        [page_content |-> texts[i],
         metadata |-> [source |-> file_path, page |-> i - 1]]]

\* UnstructuredExcelLoader(file_path, mode="elements").load(): one document
\* per element, with no "page" in its metadata
ExcelLoad(file_path, texts) ==
    [i \in 1..Len(texts) |->
        [page_content |-> texts[i],
         metadata |-> [source |-> file_path, category |-> "Table"]]]

\* One iteration of the loop of load_documents on file_paths[i], then the rest.
\* st: documents so far, the loader calls made, whether an exception left
\* the function and its message.
RECURSIVE LoadLoop(_, _, _)
LoadLoop(file_paths, i, st) ==
    IF i > Len(file_paths) THEN st
    ELSE
        LET file_path == file_paths[i]
            file_extension == StrLower(Splitext(file_path))
            content == FileContent(file_path)
            supported == file_extension \in {".pdf", ".xlsx", ".xls"}
        IN  IF ~supported
            THEN LoadLoop(file_paths, i + 1,
                          [st EXCEPT !.skipped = Append(@, file_path)])
            ELSE IF content.error # ""
            THEN [st EXCEPT !.raised = TRUE,
                            !.error = content.error,
                            !.calls = Append(@, file_path)]
            ELSE LET docs == IF file_extension = ".pdf"
                             THEN PyPDFLoad(file_path, content.texts)
                             ELSE ExcelLoad(file_path, content.texts)
                 IN  LoadLoop(file_paths, i + 1,
                              [st EXCEPT !.documents = @ \o docs,
                                         !.calls = Append(@, file_path)])

\* load_documents with "return documents" in place of "raise"
load_documents_ReturnsPartial(file_paths) ==
    LET st == LoadLoop(file_paths, 1,
                       [raised |-> FALSE, error |-> "", documents |-> <<>>,
                        calls |-> <<>>, skipped |-> <<>>])
    IN  [st EXCEPT !.raised = FALSE, !.error = ""]

\* DocumentProcessor.load_documents: a raise returns no documents
load_documents(file_paths) ==
    LET st == LoadLoop(file_paths, 1,
                       [raised |-> FALSE, error |-> "", documents |-> <<>>,
                        calls |-> <<>>, skipped |-> <<>>])
    IN  IF st.raised THEN [st EXCEPT !.documents = <<>>] ELSE st

\* DocumentProcessor.split_documents, for texts below chunk_size
split_documents(documents) ==
    SelectSeq(documents, LAMBDA d : Len(d.page_content) > 0)

(***************************************************************************)
(* embeddings_manager.py                                                   *)
(***************************************************************************)
\* create_vector_store without the "if not chunks" check
create_vector_store_Unchecked(chunks, persist_directory) ==
    [raised |-> FALSE, error |-> "",
     built |-> TRUE, persisted |-> persist_directory # "",
     vector_store |-> [docs |-> chunks]]

\* EmbeddingsManager.create_vector_store
create_vector_store(chunks, persist_directory) ==
    IF Len(chunks) = 0
    THEN [raised |-> TRUE,
          error |-> "No chunks provided to create vector store",
          built |-> FALSE, persisted |-> FALSE, vector_store |-> None]
    ELSE [raised |-> FALSE, error |-> "",
          built |-> TRUE, persisted |-> persist_directory # "",
          vector_store |-> [docs |-> chunks]]

(***************************************************************************)
(* chat_engine.py                                                          *)
(***************************************************************************)
\* ChatAnthropic(model=, temperature=, max_tokens=, anthropic_api_key=)
ChatAnthropic(model, temperature, max_tokens, api_key) ==
    [model |-> model, temperature |-> temperature,
     max_tokens |-> max_tokens, anthropic_api_key |-> api_key]

\* ConversationalRetrievalChain.from_llm(llm=, retriever=..., memory=self.memory,
\* return_source_documents=True): the chain keeps the client it was built
\* with; its retriever searches the engine's vector_store object and its
\* memory is the engine's memory object
ChainFromLlm(llm, vector_store) ==
    [llm |-> llm, retriever |-> [search_kwargs |-> [k |-> TopK]]]

\* ChatEngine.__init__
ChatEngineInit(vector_store, model, temperature, max_tokens, api_key) ==
    IF api_key = ""
    THEN [raised |-> TRUE,
          error |-> "ANTHROPIC_API_KEY not found in environment variables",
          engine |-> None]
    ELSE LET llm == ChatAnthropic(model, temperature, max_tokens, api_key)
         IN  [raised |-> FALSE, error |-> "",
              engine |-> [vector_store |-> vector_store,
                          temperature |-> temperature,
                          max_tokens |-> max_tokens,
                          model |-> model,
                          llm |-> llm,
                          memory |-> <<>>,
                          chain |-> ChainFromLlm(llm, vector_store)]]

\* update_settings that recreates the client and leaves the chain alone
update_settings_KeepsChain(self, temperature, max_tokens, model, api_key) ==
    LET recreate_llm == \/ temperature # self.temperature
                        \/ max_tokens # self.max_tokens
                        \/ model # self.model
        set == [self EXCEPT !.temperature = temperature,
                            !.max_tokens = max_tokens,
                            !.model = model]
        llm == ChatAnthropic(set.model, set.temperature, set.max_tokens, api_key)
    IN  IF recreate_llm THEN [set EXCEPT !.llm = llm] ELSE self

\* update_settings that gives the rebuilt chain a new memory, as __init__ does
update_settings_NewMemory(self, temperature, max_tokens, model, api_key) ==
    LET recreate_llm == \/ temperature # self.temperature
                        \/ max_tokens # self.max_tokens
                        \/ model # self.model
        set == [self EXCEPT !.temperature = temperature,
                            !.max_tokens = max_tokens,
                            !.model = model]
        llm == ChatAnthropic(set.model, set.temperature, set.max_tokens, api_key)
    IN  IF recreate_llm
        THEN [set EXCEPT !.llm = llm,
                         !.memory = <<>>,
                         !.chain = ChainFromLlm(llm, self.vector_store)]
        ELSE self

\* ChatEngine.update_settings(temperature=, max_tokens=, model=)
update_settings(self, temperature, max_tokens, model, api_key) ==
    LET recreate_llm == \/ temperature # self.temperature
                        \/ max_tokens # self.max_tokens
                        \/ model # self.model
        set == [self EXCEPT !.temperature = temperature,
                            !.max_tokens = max_tokens,
                            !.model = model]
        llm == ChatAnthropic(set.model, set.temperature, set.max_tokens, api_key)
    IN  IF recreate_llm
        THEN [set EXCEPT !.llm = llm,
                         !.chain = ChainFromLlm(llm, self.vector_store)]
        ELSE self

\* ChatEngine.clear_memory
clear_memory(self) == [self EXCEPT !.memory = <<>>]

(***************************************************************************)
(* The chain call self.chain({"question": query}).  The retriever ranks    *)
(* the chunks of the index by similarity to the query and returns the k    *)
(* nearest; the ranking is a function of the question.  The generated text *)
(* is a function of the client the chain was built with, the question and  *)
(* the number of earlier messages.  A fault is what the retrieval or the   *)
(* generation raises; the chain writes the turn to memory only after both  *)
(* have returned.                                                          *)
(***************************************************************************)
Prompts == {"What is the invoice total?", "Which region sold most?"}

Reverse(s) == [i \in 1..Len(s) |-> s[Len(s) + 1 - i]]

Min(a, b) == IF a < b THEN a ELSE b

\* similarity in the model: the first prompt is nearest to the first chunks
\* of the index, any other question to the last ones
Retrieve(vector_store, retriever, question) ==
    LET docs == vector_store.docs
        ranked == IF question = "What is the invoice total?" THEN docs
                  ELSE Reverse(docs)
    IN  SubSeq(ranked, 1, Min(retriever.search_kwargs.k, Len(ranked)))

Generate(llm, question, history) ==
    llm.model \o " t=" \o IntStr(llm.temperature) \o "/10 max=" \o
    IntStr(llm.max_tokens) \o " turn " \o IntStr(Len(history) \div 2 + 1) \o
    ": answer to " \o question

Faults ==
    {[phase |-> "none", error |-> ""],
     [phase |-> "retrieval", error |-> "index search failed"],
     [phase |-> "generation", error |-> "529 overloaded"]}

\* a chain that writes the question to memory before it generates
ChainCall_SavesQuestionFirst(self, question, fault) ==
    LET asked == self.memory \o <<[type |-> "human", content |-> question]>>
    IN  IF fault.phase = "retrieval"
        THEN [raised |-> TRUE, error |-> fault.error, memory |-> self.memory,
              response |-> None]
        ELSE IF fault.phase = "generation"
        THEN [raised |-> TRUE, error |-> fault.error, memory |-> asked,
              response |-> None]
        ELSE LET source_documents ==
                     Retrieve(self.vector_store, self.chain.retriever, question)
                 answer == Generate(self.chain.llm, question, self.memory)
             IN  [raised |-> FALSE, error |-> "",
                  memory |-> asked \o <<[type |-> "ai", content |-> answer]>>,
                  response |-> [answer |-> answer,
                                source_documents |-> source_documents]]

ChainCall(self, question, fault) ==
    IF fault.phase # "none"
    THEN [raised |-> TRUE, error |-> fault.error, memory |-> self.memory,
          response |-> None]
    ELSE LET source_documents == Retrieve(self.vector_store, self.chain.retriever, question)
             answer == Generate(self.chain.llm, question, self.memory)
         IN  [raised |-> FALSE, error |-> "",
              memory |-> self.memory \o
                         <<[type |-> "human", content |-> question],
                           [type |-> "ai", content |-> answer]>>,
              response |-> [answer |-> answer,
                            source_documents |-> source_documents]]

\* doc.metadata.get(key, default)
MetadataGet(metadata, key, default) ==
    IF key \in DOMAIN metadata THEN metadata[key] ELSE default

\* FormatSource with "len(doc.page_content) >= 200" for "> 200"
FormatSource_OffByOne(doc) ==
    LET source_info == MetadataGet(doc.metadata, "source", "Unknown")
        page == IF "page" \in DOMAIN doc.metadata
                THEN IntStr(MetadataGet(doc.metadata, "page", "N/A"))
                ELSE MetadataGet(doc.metadata, "page", "N/A")
        content_preview ==
            IF Len(doc.page_content) >= PreviewLen
            THEN SubSeq(doc.page_content, 1, PreviewLen) \o "..."
            ELSE doc.page_content
    IN  source_info \o " (Page " \o page \o ")\n" \o content_preview

\* the citation get_response formats for one retrieved document
FormatSource(doc) ==
    LET source_info == MetadataGet(doc.metadata, "source", "Unknown")
        \* a page is an int, which the f-string prints in decimal
        page == IF "page" \in DOMAIN doc.metadata
                THEN IntStr(MetadataGet(doc.metadata, "page", "N/A"))
                ELSE MetadataGet(doc.metadata, "page", "N/A")
        content_preview ==
            IF Len(doc.page_content) > PreviewLen
            THEN SubSeq(doc.page_content, 1, PreviewLen) \o "..."
            ELSE doc.page_content
    IN  source_info \o " (Page " \o page \o ")\n" \o
        content_preview

\* ChatEngine.get_response: the engine after the call and what the call
\* returned or raised
get_response(self, query, fault) ==
    LET call == ChainCall(self, query, fault)
        after == [self EXCEPT !.memory = call.memory]
    IN  IF call.raised
        THEN [engine |-> after, raised |-> TRUE,
              error |-> "Error generating response: " \o call.error,
              response |-> None]
        ELSE LET docs == call.response.source_documents
                 sources == [i \in 1..Len(docs) |-> FormatSource(docs[i])]
             IN  [engine |-> after, raised |-> FALSE, error |-> "",
                  response |-> [answer |-> call.response.answer,
                                sources |-> sources]]

(***************************************************************************)
(* utils.py: clear_chat_history, on the pair (messages, chat_engine)       *)
(***************************************************************************)
\* clear_chat_history without the call of clear_memory
clear_chat_history_MessagesOnly(msgs, engine) ==
    [messages |-> <<>>, chat_engine |-> engine]

clear_chat_history(msgs, engine) ==
    [messages |-> <<>>,
     chat_engine |-> IF engine # None THEN clear_memory(engine) ELSE engine]

(***************************************************************************)
(* app.py                                                                  *)
(***************************************************************************)
ApiKey == "sk-ant-key"

\* load_dotenv(): sets the variable from .env unless the environment has it
load_dotenv(env, file) == IF env = "" THEN file ELSE env

\* os.getenv("ANTHROPIC_API_KEY")
getenv(env) == env

\* the options of the settings widgets used in the model; the first of each
\* is the widget's default
WidgetDefaults ==
    [claude_model |-> "claude-3-5-sonnet-20240620", temperature |-> 0,
     max_tokens |-> 1024]

\* the widget values of the model: the defaults and one move of each widget
WidgetValues ==
    {WidgetDefaults,
     [WidgetDefaults EXCEPT !.claude_model = "claude-3-haiku-20240307"],
     [WidgetDefaults EXCEPT !.temperature = 7],
     [WidgetDefaults EXCEPT !.max_tokens = 2000]}

\* what a script run records when it does nothing worth recording
NoRun ==
    [op |-> "start", files |-> <<>>, calls |-> <<>>, ndocs |-> 0, nchunks |-> 0,
     built |-> FALSE, shown |-> "", prompt |-> "", fault |-> "", raised |-> ""]

\* the calls of the "Process Documents" button up to the vector store, which
\* depend on the upload alone, for every upload of the model
Ingested ==
    [uploaded_files \in Uploads |->
        LET file_paths == [i \in 1..Len(uploaded_files) |->
                              save_uploaded_file(uploaded_files[i])]
            loaded_docs == load_documents(file_paths)
            chunks == split_documents(loaded_docs.documents)
        IN  [loaded_docs |-> loaded_docs, chunks |-> chunks,
             store |-> create_vector_store(chunks, "")]]

\* the exception the try block of the "Process Documents" button ends with
\* ("": none), given what the ingestion and the engine constructor did
ProcessError(ing, made) ==
    IF ing.loaded_docs.raised THEN ing.loaded_docs.error
    ELSE IF ing.store.raised THEN ing.store.error
    ELSE IF made.raised THEN made.error
    ELSE ""

\* the try block with documents_loaded set once the index is built, before
\* the engine is constructed
ProcessOutcome_FlagBeforeEngine(uploaded_files, ing, made, error, engine, loaded) ==
    [chat_engine |-> IF error = "" THEN made.engine ELSE engine,
     documents_loaded |-> IF ~ing.loaded_docs.raised /\ ing.store.built
                          THEN TRUE ELSE loaded,
     run |-> [NoRun EXCEPT
                !.op = "process",
                !.files = uploaded_files,
                !.calls = ing.loaded_docs.calls,
                !.ndocs = Len(ing.loaded_docs.documents),
                !.nchunks = IF ing.loaded_docs.raised THEN 0 ELSE Len(ing.chunks),
                !.built = ~ing.loaded_docs.raised /\ ing.store.built,
                !.raised = error,
                !.shown = IF error = ""
                          THEN "Successfully processed " \o
                               IntStr(Len(ing.loaded_docs.documents)) \o
                               " documents!"
                          ELSE "Error processing documents: " \o error]]

\* the end of the try block and its except branch: the session is assigned
\* only when nothing raised
ProcessOutcome(uploaded_files, ing, made, error, engine, loaded) ==
    [chat_engine |-> IF error = "" THEN made.engine ELSE engine,
     documents_loaded |-> IF error = "" THEN TRUE ELSE loaded,
     run |-> [NoRun EXCEPT
                !.op = "process",
                !.files = uploaded_files,
                !.calls = ing.loaded_docs.calls,
                !.ndocs = Len(ing.loaded_docs.documents),
                !.nchunks = IF ing.loaded_docs.raised THEN 0 ELSE Len(ing.chunks),
                !.built = ~ing.loaded_docs.raised /\ ing.store.built,
                !.raised = error,
                !.shown = IF error = ""
                          THEN "Successfully processed " \o
                               IntStr(Len(ing.loaded_docs.documents)) \o
                               " documents!"
                          ELSE "Error processing documents: " \o error]]

ProcessTry(uploaded_files, ing, made, engine, loaded) ==
    ProcessOutcome(uploaded_files, ing, made, ProcessError(ing, made),
                   engine, loaded)

\* the body of the "Process Documents" button on the session (engine, loaded)
ProcessHandler(uploaded_files, engine, loaded, api_key) ==
    IF Len(uploaded_files) = 0
    THEN [chat_engine |-> engine, documents_loaded |-> loaded,
          run |-> [NoRun EXCEPT !.op = "process",
                                !.shown = "Please upload at least one document"]]
    ELSE ProcessTry(uploaded_files, Ingested[uploaded_files],
                    ChatEngineInit(Ingested[uploaded_files].store.vector_store,
                                   DefaultModel, DefaultTemperature,
                                   DefaultMaxTokens, api_key),
                    engine, loaded)

\* the settings block of the sidebar: every run that reaches it hands the
\* widget values to the engine, when there is one
SettingsSidebar(engine, w, api_key) ==
    IF engine # None
    THEN update_settings(engine, w.temperature, w.max_tokens, w.claude_model,
                         api_key)
    ELSE engine

\* the chat input block with an except branch that only shows the error
ChatRecord_DropsFailedTurn(msgs, prompt, got) ==
    IF got.raised
    THEN [chat_engine |-> got.engine,
          messages |-> msgs \o <<[role |-> "user", content |-> prompt]>>,
          raised |-> got.error,
          shown |-> "Error generating response: " \o got.error]
    ELSE [chat_engine |-> got.engine,
          messages |-> msgs \o
              <<[role |-> "user", content |-> prompt],
                [role |-> "assistant",
                 content |-> got.response.answer,
                 sources |-> got.response.sources]>>,
          raised |-> "", shown |-> got.response.answer]

\* the chat input block after the call of get_response returned or raised:
\* the user turn, then the assistant turn or the error turn
ChatRecord(msgs, prompt, got) ==
    IF got.raised
    THEN [chat_engine |-> got.engine,
          messages |-> msgs \o
              <<[role |-> "user", content |-> prompt],
                [role |-> "assistant",
                 content |-> "Error generating response: " \o got.error]>>,
          raised |-> got.error,
          shown |-> "Error generating response: " \o got.error]
    ELSE [chat_engine |-> got.engine,
          messages |-> msgs \o
              <<[role |-> "user", content |-> prompt],
                [role |-> "assistant",
                 content |-> got.response.answer,
                 sources |-> got.response.sources]>>,
          raised |-> "", shown |-> got.response.answer]

\* the chat input block on (messages, engine)
ChatHandler(msgs, engine, prompt, fault) ==
    ChatRecord(msgs, prompt,
               IF engine = None
               THEN [engine |-> engine, raised |-> TRUE,
                     error |-> "'NoneType' object has no attribute 'get_response'",
                     response |-> None]
               ELSE get_response(engine, prompt, fault))

(***************************************************************************)
(* The session: one action per script run.                                 *)
(***************************************************************************)
\* the first script run: load_dotenv() has filled the environment
Init ==
    /\ \E shell \in {"", ApiKey}, file \in {"", ApiKey} :
          environ = load_dotenv(shell, file)
    /\ messages = <<>>
    /\ chat_engine = None
    /\ documents_loaded = FALSE
    /\ widgets = WidgetDefaults
    /\ run = NoRun

\* the rest of a "Process Documents" run after the button's body: the
\* settings block
ProcessDocumentsRun(done) ==
    /\ chat_engine' = SettingsSidebar(done.chat_engine, widgets, getenv(environ))
    /\ documents_loaded' = done.documents_loaded
    /\ run' = done.run
    /\ UNCHANGED <<environ, messages, widgets>>

\* the user clicks "Process Documents" with uploaded_files in the uploader
ProcessDocuments(uploaded_files) ==
    ProcessDocumentsRun(ProcessHandler(uploaded_files, chat_engine, documents_loaded,
                                 getenv(environ)))

ClearChatRun(done) ==
    /\ messages' = done.messages
    /\ chat_engine' = SettingsSidebar(done.chat_engine, widgets, getenv(environ))
    /\ run' = [NoRun EXCEPT !.op = "clear"]
    /\ UNCHANGED <<environ, documents_loaded, widgets>>

\* the user clicks "Clear Chat History"; st.rerun() runs the script again
ClearChat == ClearChatRun(clear_chat_history(messages, chat_engine))

\* the user moves a settings widget
ChangeSettings(w) ==
    /\ w # widgets
    /\ widgets' = w
    /\ chat_engine' = SettingsSidebar(chat_engine, w, getenv(environ))
    /\ run' = [NoRun EXCEPT !.op = "settings"]
    /\ UNCHANGED <<environ, messages, documents_loaded>>

ChatInputRun(prompt, fault, done) ==
    /\ messages' = done.messages
    /\ chat_engine' = done.chat_engine
    /\ run' = [NoRun EXCEPT !.op = "query", !.prompt = prompt,
                            !.fault = fault.error, !.raised = done.raised,
                            !.shown = done.shown]
    /\ UNCHANGED <<environ, documents_loaded, widgets>>

\* the user submits a prompt in the chat input: the settings block runs
\* before the chat block
ChatInput(prompt, fault) ==
    /\ documents_loaded
    /\ Len(messages) < 2 * MaxQueries
    /\ ChatInputRun(prompt, fault,
                  ChatHandler(messages,
                              SettingsSidebar(chat_engine, widgets, getenv(environ)),
                              prompt, fault))

Next ==
    \/ \E uploaded_files \in Uploads : ProcessDocuments(uploaded_files)
    \/ ClearChat
    \/ \E w \in WidgetValues : ChangeSettings(w)
    \/ \E prompt \in Prompts, fault \in Faults : ChatInput(prompt, fault)

Spec == Init /\ [][Next]_vars

(***************************************************************************)
(* Vocabulary of the properties.                                           *)
(***************************************************************************)
HasEngine == chat_engine # None

LastMessage == messages[Len(messages)]

FailedQuery(r) == r.op = "query" /\ r.fault # ""

AnsweredQuery(r) == r.op = "query" /\ r.fault = ""

\* the files of the uploads whose loader raises, and those that yield no chunk
Broken == {"broken.pdf"}

Chunkless == {"SCAN.PDF", "notes.txt"}

\* the first index of an upload whose file is broken (0: none)
FirstBroken(fs) ==
    IF \E i \in DOMAIN fs : fs[i] \in Broken
    THEN CHOOSE i \in DOMAIN fs :
            fs[i] \in Broken /\ \A j \in 1..(i - 1) : fs[j] \notin Broken
    ELSE 0

(***************************************************************************)
(* C1: a query that fails, in retrieval or in generation, makes            *)
(* get_response raise one error, "Error generating response: " followed by *)
(* the original failure message, and the engine's conversation memory      *)
(* after the call is the memory before it.                                 *)
(***************************************************************************)
C1_FailedQueryCommitsNothing ==
    [][FailedQuery(run') =>
          /\ run'.raised = "Error generating response: " \o run'.fault
          /\ chat_engine'.memory = chat_engine.memory]_vars

\* a generation and a retrieval failure, each after an answered query
C1_Witness ==
    /\ HasEngine
    /\ FailedQuery(run)
    /\ run.fault = "529 overloaded"
    /\ Len(chat_engine.memory) = 2
    /\ Len(messages) = 4

(***************************************************************************)
(* C2: a failed query grows the session chat history by the user turn      *)
(* followed by one assistant turn whose content is the error message.      *)
(***************************************************************************)
C2_FailedQueryIsRecorded ==
    [][FailedQuery(run') =>
          messages' = messages \o
              <<[role |-> "user", content |-> run'.prompt],
                [role |-> "assistant",
                 content |-> "Error generating response: " \o run'.raised]>>]_vars

C2_Witness ==
    /\ FailedQuery(run)
    /\ run.fault = "index search failed"
    /\ Len(messages) = 4
    /\ messages[3] = [role |-> "user", content |-> run.prompt]
    /\ messages[4].content =
          "Error generating response: Error generating response: index search failed"

(***************************************************************************)
(* C3: after every script run the LLM client of the engine is the one      *)
(* built from the engine's current model, temperature and max_tokens, the  *)
(* chain holds that client, the engine's settings are the widget values,   *)
(* and an answered query was generated by the client of those settings.    *)
(***************************************************************************)
C3_ChainBoundToSettings ==
    HasEngine =>
        LET current == ChatAnthropic(chat_engine.model, chat_engine.temperature,
                                     chat_engine.max_tokens, environ)
        IN  /\ chat_engine.llm = current
            /\ chat_engine.chain.llm = current
            /\ chat_engine.model = widgets.claude_model
            /\ chat_engine.temperature = widgets.temperature
            /\ chat_engine.max_tokens = widgets.max_tokens
            /\ AnsweredQuery(run) =>
                  LastMessage.content =
                      Generate(current, run.prompt,
                               SubSeq(chat_engine.memory, 1,
                                      Len(chat_engine.memory) - 2))

\* a query answered after a widget was moved
C3_Witness ==
    /\ HasEngine
    /\ AnsweredQuery(run)
    /\ widgets.max_tokens = 2000
    /\ chat_engine.chain.llm.max_tokens = 2000

(***************************************************************************)
(* C4: the engine's conversation memory loses turns only in a run of the   *)
(* clear button, which discards them all.                                  *)
(***************************************************************************)
C4_OnlyClearDropsTurns ==
    [][(HasEngine /\ Len(chat_engine'.memory) < Len(chat_engine.memory)) =>
          (run'.op = "clear" /\ chat_engine'.memory = <<>>)]_vars

(***************************************************************************)
(* C5: in a session whose credential is missing no loader is called, no    *)
(* index is built and there is no engine.                                  *)
(***************************************************************************)
C5_NothingProceedsWithoutCredential ==
    environ = "" => (run.calls = <<>> /\ ~run.built /\ ~HasEngine)

(***************************************************************************)
(* C6: processing an upload that yields no chunk raises the error of       *)
(* create_vector_store, builds no index and leaves the chat engine and     *)
(* documents_loaded as they were.                                          *)
(***************************************************************************)
C6_EmptyIndexIsRefused ==
    [][(/\ run'.op = "process"
        /\ run'.files # <<>>
        /\ \A i \in DOMAIN run'.files : run'.files[i] \in Chunkless) =>
          /\ run'.raised = "No chunks provided to create vector store"
          /\ ~run'.built
          /\ chat_engine' = chat_engine
          /\ documents_loaded' = documents_loaded]_vars

\* the refused upload, in a session that has an engine
C6_Witness ==
    /\ run.op = "process"
    /\ run.files = <<"SCAN.PDF", "notes.txt">>
    /\ run.nchunks = 0
    /\ run.ndocs = 1
    /\ HasEngine
    /\ documents_loaded

(***************************************************************************)
(* C7: when the loader of a file of the batch raises, load_documents       *)
(* returns no document, the loaders called are those of the files up to    *)
(* the failing one and no later one, and the error shown is the loader's.  *)
(***************************************************************************)
C7_LoadFailsFast ==
    (run.op = "process" /\ FirstBroken(run.files) > 0) =>
        LET i == FirstBroken(run.files)
        IN  /\ run.calls = [j \in 1..i |-> "temp_uploads/" \o run.files[j]]
            /\ run.ndocs = 0
            /\ run.nchunks = 0
            /\ ~run.built
            /\ run.raised = "EOF marker not found"
            /\ run.shown = "Error processing documents: EOF marker not found"

C7_Witness ==
    /\ run.op = "process"
    /\ run.files = <<"report.pdf", "broken.pdf", "data.xlsx">>
    /\ Len(run.calls) = 2

(***************************************************************************)
(* C8: a run in which a settings widget moved leaves the chat history and  *)
(* the engine's conversation memory as they were.                          *)
(***************************************************************************)
C8_SettingsKeepHistory ==
    [][run'.op = "settings" =>
          /\ messages' = messages
          /\ HasEngine => chat_engine'.memory = chat_engine.memory]_vars

\* settings moved after an answered query
C8_Witness ==
    /\ run.op = "settings"
    /\ HasEngine
    /\ chat_engine.llm.temperature = 7
    /\ Len(chat_engine.memory) = 2
    /\ Len(messages) = 2
    /\ "sources" \in DOMAIN messages[2]

(***************************************************************************)
(* C9: after a clear the message list is empty and so is the memory of the *)
(* engine, if there is one; a clear right after a clear changes nothing.   *)
(***************************************************************************)
C9_ClearIsIdempotent ==
    /\ [](run.op = "clear" =>
            /\ Len(messages) = 0
            /\ HasEngine => Len(chat_engine.memory) = 0)
    /\ [][(run.op = "clear" /\ run'.op = "clear") =>
            UNCHANGED <<messages, chat_engine, documents_loaded>>]_vars

C9_Witness ==
    /\ run.op = "clear"
    /\ HasEngine
    /\ chat_engine.memory = <<>>
    /\ messages = <<>>

C9_WitnessNoEngine ==
    /\ run.op = "clear"
    /\ ~HasEngine

(***************************************************************************)
(* C10: the sources of an answered query are one citation per retrieved    *)
(* chunk, in retrieval order, at most k = 4 of them: the source (or        *)
(* "Unknown"), " (Page ", the page (or "N/A"), ")", a newline, and the     *)
(* chunk text when it has at most 200 characters, else its first 200       *)
(* characters and "...".                                                   *)
(***************************************************************************)
C10_OneCitationPerChunk ==
    (HasEngine /\ AnsweredQuery(run)) =>
        LET sources == LastMessage.sources
            retrieved == Retrieve(chat_engine.vector_store,
                                  chat_engine.chain.retriever, run.prompt)
        IN  /\ Len(sources) = Len(retrieved)
            /\ Len(sources) <= 4
            /\ \A i \in 1..Len(retrieved) :
                  LET text == retrieved[i].page_content
                      md == retrieved[i].metadata
                      head == (IF "source" \in DOMAIN md THEN md.source
                               ELSE "Unknown")
                              \o " (Page " \o
                              (IF "page" \in DOMAIN md THEN IntStr(md.page)
                               ELSE "N/A")
                              \o ")\n"
                      preview == SubSeq(sources[i], Len(head) + 1, Len(sources[i]))
                  IN  /\ SubSeq(sources[i], 1, Len(head)) = head
                      /\ Len(text) <= 200 => preview = text
                      /\ Len(text) > 200 =>
                            /\ Len(preview) = 203
                            /\ SubSeq(preview, 1, 200) = SubSeq(text, 1, 200)
                            /\ SubSeq(preview, 201, 203) = "..."

\* four citations from an index of more than four chunks, one of a chunk of
\* exactly 200 characters, one of a longer chunk and one without a page
C10_Witness ==
    /\ HasEngine
    /\ AnsweredQuery(run)
    /\ Len(chat_engine.vector_store.docs) > 4
    /\ Len(LastMessage.sources) = 4
    /\ \E i \in 1..4 : Len(LastMessage.sources[i]) > 203
    /\ \E i \in 1..4 :
          LastMessage.sources[i] = "temp_uploads/report.pdf (Page 0)\n" \o Text200
    /\ \E i \in 1..4 :
          LastMessage.sources[i] = "temp_uploads/data.xlsx (Page N/A)\nRegion South 7"

(***************************************************************************)
(* C11: whenever documents_loaded is true there is a chat engine whose     *)
(* index holds every chunk of one upload that was ingested without error;  *)
(* a query is dispatched only when documents_loaded is true, and to an     *)
(* engine; a Process Documents run that fails leaves chat_engine and       *)
(* documents_loaded as they were.                                          *)
(***************************************************************************)
C11_IngestionBeforeQuery ==
    /\ [](/\ documents_loaded =>
                /\ HasEngine
                /\ Len(chat_engine.vector_store.docs) > 0
                /\ \E fs \in Uploads :
                      /\ ~Ingested[fs].loaded_docs.raised
                      /\ chat_engine.vector_store.docs = Ingested[fs].chunks
          /\ run.op = "query" =>
                /\ documents_loaded
                /\ run.raised # "'NoneType' object has no attribute 'get_response'")
    /\ [][(run'.op = "process" /\ run'.shown # "" /\ run'.raised # "") =>
             /\ chat_engine' = chat_engine
             /\ documents_loaded' = documents_loaded]_vars

\* a re-processing that failed in the loader, after an answered query on the
\* index of the first processing
C11_Witness ==
    /\ run.op = "process"
    /\ run.raised = "EOF marker not found"
    /\ documents_loaded
    /\ HasEngine
    /\ Len(chat_engine.vector_store.docs) = 7
    /\ Len(chat_engine.memory) = 2
    /\ Len(messages) = 2

====
